---- MODULE Spec2Model ----
(***************************************************************************)
(* State-machine model of markup-docx.py: the hotkey handler on_triggered  *)
(* (guard -> acquire -> filter -> convert -> insert), the editor document  *)
(* it drives through the automation object, the scratch directory and the  *)
(* modal messages it shows.                                                *)
(*                                                                         *)
(* Text is a sequence of one-character tokens.  A document is a record     *)
(* [text, s, e, style]: its characters, the selection as the character     *)
(* offsets Start = s and End = e, and the style at the selection.          *)
(***************************************************************************)
EXTENDS Integers, Sequences, FiniteSets, TLC

\* ------------------------------------------------------------ characters
CR  == "\\r"       \* paragraph mark, '\r'
LF  == "\\n"       \* line feed, '\n'
VT  == "\\x0b"     \* soft line break, '\x0b'
SP  == " "
LDQ == "LDQ"       \* U+201C
RDQ == "RDQ"       \* U+201D
LSQ == "LSQ"       \* U+2018
RSQ == "RSQ"       \* U+2019
DQ  == "\""
SQ  == "'"

\* ---------------------------------------------------------------- bounds
MaxParagraphs == 2 \* paragraphs of a document when the program starts
MaxTextLen  == 3   \* length of the texts text_filter is applied to in FilterSpec
MaxTriggers == 2   \* hotkey presses in one behaviour
MaxEnvMoves == 1   \* changes of foreground window / active document by the user

\* ------------------------------------------------------- sets of inputs
RECURSIVE SeqsUpTo(_, _)
SeqsUpTo(S, n) ==
    IF n = 0 THEN {<< >>}
    ELSE LET shorter == SeqsUpTo(S, n - 1)
         IN  shorter \cup {Append(q, c) : q \in {r \in shorter : Len(r) = n - 1}, c \in S}

ParTexts    == {<< >>, <<"a">>}     \* a paragraph's characters before its mark
FilterChars == {"a", CR, LF, VT, LDQ, RDQ, LSQ, RSQ}
DocNames    == {"Report.docx", "Other.docx"}
Styles      == {"Normal", "Heading 1"}
FragStyle   == "First Paragraph"
ClipTexts   == {<< >>, <<SP, LF>>, <<"a">>, <<"a", LF>>, <<"a", LF, "a">>}
Fragments   == {<<"x", CR>>, <<"x">>}
Titles      == {<<"Report.docx", " - Word">>, <<"Report.docx", " - Notepad">>,
                <<"Other.docx", " - Word">>, <<"Report.docx", " - Word", " (2)">>}
Stdouts     == {"", "out:"}
Stderrs     == {"", "unexpected end of input"}

None == "None"

\* ------------------------------------------------------------ str helpers
IsSpace(c) == c \in {SP, CR, LF, VT}

RECURSIVE LStrip(_)
LStrip(t) == IF t # << >> /\ IsSpace(Head(t)) THEN LStrip(Tail(t)) ELSE t

RECURSIVE RStrip(_)
RStrip(t) == IF t # << >> /\ IsSpace(t[Len(t)]) THEN RStrip(SubSeq(t, 1, Len(t) - 1)) ELSE t

\* str.strip()
Strip(t) == RStrip(LStrip(t))

\* str.find(c) == -1
NotFound(t, c) == \A i \in 1..Len(t) : t[i] # c

\* str.replace of a one-character pattern
Replace1(t, a, r) == [i \in 1..Len(t) |-> IF t[i] = a THEN r ELSE t[i]]

\* str.replace of the two-character pattern a b: leftmost, non-overlapping
RECURSIVE Replace2(_, _, _, _)
Replace2(t, a, b, r) ==
    IF t = << >> THEN << >>
    ELSE IF Len(t) >= 2 /\ t[1] = a /\ t[2] = b
         THEN <<r>> \o Replace2(SubSeq(t, 3, Len(t)), a, b, r)
         ELSE <<t[1]>> \o Replace2(Tail(t), a, b, r)

\* str.format(doc=name) of a pattern given as tokens, "{doc}" being the field
Format(pattern, name) == [i \in 1..Len(pattern) |-> IF pattern[i] = "{doc}" THEN name ELSE pattern[i]]

IsPrefix(p, t) == Len(p) <= Len(t) /\ SubSeq(t, 1, Len(p)) = p

\* ------------------------------------------------------------- arguments
get_app_name(wps) == IF wps THEN "WPS Office" ELSE "Word"

\* args.title when --title is not given
DefaultTitle(wps) == <<"{doc}", " - " \o get_app_name(wps)>>

ext_from_format(format) ==
    CASE format = "typst" -> "typ"
      [] format = "markdown_mmd" -> "md"
      [] format = "html" -> "html"

\* ---------------------------------------------------------------- state
VARIABLES
    args,        \* parsed arguments: [from_format, wps, title, force_straight_quotes]
    docs,        \* the editor's open documents: name -> [text, s, e, style]
    active,      \* name of the editor's ActiveDocument
    envMoves,    \* user's window/document switches so far
    fs,          \* paths existing in the scratch area
    pc,          \* position of the handler
    triggers,    \* hotkey presses so far
    guard,       \* what connect_to_word saw in the current trigger
    word,        \* on_triggered's local `word`
    selRead,     \* what selection.Text returned to get_selection_text
    clip,        \* what pyperclip.paste() returned in the current trigger
    origin,      \* the acquirer function that produced the text
    captured,    \* the text as returned by the acquirer
    text,        \* on_triggered's local `text`
    inline_block,\* on_triggered's local `inline_block`
    pandoc,      \* what call_pandoc saw: [found, ran, returncode] and, as far as it
                 \* reads them (nonzero exit), [stdout, stderr]
    frag,        \* contents of temp.docx written by the converter
    docx_file,   \* on_triggered's local `docx_file`
    exc,         \* the exception in flight / last raised in the current trigger
    splice,      \* insert_into_docx's effect: [doc, before, style]
    calls,       \* the calls made on collaborators in the current trigger
    modals,      \* the MessageBox messages shown in the current trigger
    outcome      \* how the current trigger ended

vars == <<args, docs, active, envMoves, fs, pc, triggers, guard, word, selRead,
          clip, origin, captured, text, inline_block, pandoc, frag, docx_file, exc, splice,
          calls, modals, outcome>>

envVars   == <<docs, active, envMoves, fs>>
localVars == <<guard, word, selRead, clip, origin, captured, text, inline_block, pandoc, frag,
               docx_file, exc, splice, calls, modals, outcome>>

\* ------------------------------------------------- the editor's document
\* Selection.Text: the selected characters; for an insertion point, the
\* character that follows it
SelText(d) ==
    IF d.s = d.e
    THEN IF d.s < Len(d.text) THEN <<d.text[d.s + 1]>> ELSE << >>
    ELSE SubSeq(d.text, d.s + 1, d.e)

\* Selection.Paragraphs.Last.Range.End: the offset just after the paragraph
\* mark that closes the paragraph holding the selection's last character
LastParagraphEnd(d) ==
    LET last == IF d.s = d.e THEN d.s + 1 ELSE d.e
        marks == {j \in last..Len(d.text) : d.text[j] = CR}
    IN  IF marks = {} THEN Len(d.text) ELSE CHOOSE j \in marks : \A k \in marks : j <= k

\* the end of the characters an edit of the selection replaces: the
\* document's final paragraph mark stays
ReplacedEnd(d) == IF d.e = Len(d.text) THEN d.e - 1 ELSE d.e

\* Selection.InsertFile: the fragment replaces the selection and the insertion
\* point is left at the end of the inserted content
InsertFile(d, fragment) ==
    [text  |-> SubSeq(d.text, 1, d.s) \o fragment \o SubSeq(d.text, ReplacedEnd(d) + 1, Len(d.text)),
     s     |-> d.s + Len(fragment),
     e     |-> d.s + Len(fragment),
     style |-> FragStyle]

\* Selection.MoveLeft(): collapse and move one character to the left
MoveLeft(d) ==
    LET at == IF d.s > 0 THEN d.s - 1 ELSE 0
    IN  [d EXCEPT !.s = at, !.e = at]

\* Selection.Delete(): remove the selection, or the character after an
\* insertion point
Delete(d) ==
    LET upto == IF d.s = d.e THEN d.s + 1 ELSE ReplacedEnd(d)
    IN  [d EXCEPT !.text = SubSeq(d.text, 1, d.s) \o SubSeq(d.text, upto + 1, Len(d.text)),
                  !.e = d.s]

\* ------------------------------------------------------ source acquirer
NoText == <<None>>     \* Python's None where a text is expected

\* get_selection_text testing text == "" where the code tests text.strip() == ""
get_selection_text_unstripped(d) ==
    LET t   == SelText(d)
        inl == NotFound(Strip(t), CR)
    IN  IF t = << >>
        THEN [some |-> FALSE, text |-> NoText, inline_block |-> FALSE, doc |-> d]
        ELSE [some |-> TRUE, text |-> t, inline_block |-> inl,
              doc |-> IF inl /\ d.e = LastParagraphEnd(d) THEN [d EXCEPT !.e = d.e - 1] ELSE d]

get_selection_text(d) ==
    LET t   == SelText(d)
        inl == NotFound(Strip(t), CR)
    IN  IF Strip(t) = << >>
        THEN [some |-> FALSE, text |-> NoText, inline_block |-> FALSE, doc |-> d]
        ELSE [some |-> TRUE, text |-> t, inline_block |-> inl,
              doc |-> IF inl /\ d.e = LastParagraphEnd(d) THEN [d EXCEPT !.e = d.e - 1] ELSE d]

\* get_clipboard_text looking for "\r", as get_selection_text does
get_clipboard_text_cr(pasted) ==
    IF Strip(pasted) = << >>
    THEN [some |-> FALSE, text |-> NoText, inline_block |-> FALSE]
    ELSE [some |-> TRUE, text |-> pasted, inline_block |-> NotFound(Strip(pasted), CR)]

get_clipboard_text(pasted) ==
    IF Strip(pasted) = << >>
    THEN [some |-> FALSE, text |-> NoText, inline_block |-> FALSE]
    ELSE [some |-> TRUE, text |-> pasted, inline_block |-> NotFound(Strip(pasted), LF)]

\* ------------------------------------------------------ text normalizer
\* text_filter folding the quotes whatever args.force_straight_quotes is
text_filter_always_straight(t, force_straight_quotes) ==
    LET eol    == Replace1(Replace2(t, CR, LF, LF), CR, LF)
        soft   == Replace1(eol, VT, LF)
        double == Replace1(Replace1(soft, LDQ, DQ), RDQ, DQ)
    IN  Replace1(Replace1(double, LSQ, SQ), RSQ, SQ)

\* text_filter turning the soft line break into "\r" after the line endings
\* have been unified
text_filter_soft_cr(t, force_straight_quotes) ==
    LET eol    == Replace1(Replace2(t, CR, LF, LF), CR, LF)
        soft   == Replace1(eol, VT, CR)
        double == Replace1(Replace1(soft, LDQ, DQ), RDQ, DQ)
        single == Replace1(Replace1(double, LSQ, SQ), RSQ, SQ)
    IN  IF force_straight_quotes THEN single ELSE soft

text_filter(t, force_straight_quotes) ==
    LET eol    == Replace1(Replace2(t, CR, LF, LF), CR, LF)
        soft   == Replace1(eol, VT, LF)
        double == Replace1(Replace1(soft, LDQ, DQ), RDQ, DQ)
        single == Replace1(Replace1(double, LSQ, SQ), RSQ, SQ)
    IN  IF force_straight_quotes THEN single ELSE soft

\* ---------------------------------------------------- foreground guard
RECURSIVE Join(_)
Join(tokens) == IF tokens = << >> THEN "" ELSE Head(tokens) \o Join(Tail(tokens))

\* title.startswith(expected_title) in place of the comparison of line 190
TitleMatchesPrefix(title, expected_title) == IsPrefix(expected_title, title)

\* line 190: title != expected_title
TitleMatches(title, expected_title) == title = expected_title

\* connect_to_word without the title comparison of lines 187-191
connect_to_word_unchecked(reachable, docName, title, pattern) ==
    IF ~reachable
    THEN [ok |-> FALSE, exc |-> "Please open a Word document."]
    ELSE [ok |-> TRUE, exc |-> None]

connect_to_word(reachable, docName, title, pattern) ==
    IF ~reachable
    THEN [ok |-> FALSE, exc |-> "Please open a Word document."]
    ELSE LET expected_title == Format(pattern, docName)
         IN  IF ~TitleMatches(title, expected_title)
             THEN [ok |-> FALSE,
                   exc |-> "Foreground window is not Word. title='" \o Join(title)
                           \o "', expected_title='" \o Join(expected_title) \o "'"]
             ELSE [ok |-> TRUE, exc |-> None]

\* ------------------------------------------------------ scratch directory
TempDir == "tmp"
File(name, data) == [dir |-> TempDir, name |-> name, data |-> data]
Exists(name) == \E f \in fs : f.dir = TempDir /\ f.name = name
ReadFile(name) == (CHOOSE f \in fs : f.dir = TempDir /\ f.name = name).data
SourceName == "source." \o ext_from_format(args.from_format)
\* os.rmdir-like removal: the directory entry only, not what it holds
Cleanup_rmdir(files) == {f \in files : ~(f.dir = TempDir /\ f.name = "")}

\* TemporaryDirectory.__exit__: the directory and everything in it
Cleanup(files) == {f \in files : f.dir # TempDir}

\* ------------------------------------------------------------------ Init
NoGuard  == [reachable |-> FALSE, doc |-> None, title |-> << >>, ok |-> FALSE]
NoPandoc == [found |-> FALSE, ran |-> FALSE, returncode |-> 0, stdout |-> "", stderr |-> ""]
NoSplice == [doc |-> None, before |-> [text |-> << >>, s |-> 0, e |-> 0, style |-> None],
             fragment |-> << >>, inserted |-> FALSE]
NotRead  == <<"not read">>

\* the texts of 1..n paragraphs, each closed by its paragraph mark
RECURSIVE ParagraphTexts(_)
ParagraphTexts(n) ==
    IF n = 0 THEN {}
    ELSE {Append(p, CR) : p \in ParTexts}
         \cup {Append(p, CR) \o rest : p \in ParTexts, rest \in ParagraphTexts(n - 1)}

Documents ==
    {[text |-> t, s |-> s, e |-> e, style |-> st] :
        t \in ParagraphTexts(MaxParagraphs), s \in 0..(2 * MaxParagraphs),
        e \in 0..(2 * MaxParagraphs), st \in Styles}

WellFormed(d) ==
    /\ d.text # << >> /\ d.text[Len(d.text)] = CR
    /\ 0 <= d.s /\ d.s <= d.e /\ d.e <= Len(d.text) /\ d.s < Len(d.text)

EmptyDocument == [text |-> <<CR>>, s |-> 0, e |-> 0, style |-> "Normal"]

\* what on_triggered's locals hold before the handler has run
FreshLocals ==
    /\ guard = NoGuard /\ word = None /\ selRead = NotRead /\ clip = NotRead /\ origin = None
    /\ captured = NoText /\ text = NoText /\ inline_block = FALSE
    /\ pandoc = NoPandoc /\ frag = << >> /\ docx_file = None /\ exc = None
    /\ splice = NoSplice /\ calls = << >> /\ modals = << >> /\ outcome = None

\* the program started without options (lines 25-66); the documents the user
\* has open, with any selection
Init ==
    /\ args = [from_format |-> "typst", wps |-> FALSE, title |-> DefaultTitle(FALSE),
               force_straight_quotes |-> FALSE]
    /\ \E d \in {x \in Documents : WellFormed(x)} :
          docs = [n \in DocNames |-> IF n = "Report.docx" THEN d ELSE EmptyDocument]
    /\ active = "Report.docx"
    /\ envMoves = 0
    /\ fs = {}
    /\ pc = "idle"
    /\ triggers = 0
    /\ FreshLocals

\* --------------------------------------------------------- on_triggered
\* lines 196-203: hwnd = GetForegroundWindow(); word = connect_to_word(hwnd).
\* `title` is GetWindowText(hwnd): whichever window is in front when the hotkey
\* fires; the handler never reads the foreground window again.
Trigger ==
    /\ pc = "idle"
    /\ triggers < MaxTriggers
    /\ triggers' = triggers + 1
    /\ \E reachable \in BOOLEAN, title \in Titles :
          LET r == connect_to_word(reachable, active, title, args.title)
          IN  /\ guard' = [reachable |-> reachable, doc |-> IF reachable THEN active ELSE None,
                           title |-> title, ok |-> r.ok]
              /\ word' = IF r.ok THEN "Word.Application" ELSE None
              /\ exc' = r.exc
              /\ modals' = IF r.ok THEN << >> ELSE <<r.exc>>
              /\ outcome' = IF r.ok THEN "running" ELSE "guard_error"
              /\ pc' = IF r.ok THEN "acquire" ELSE "idle"
    /\ calls' = <<"connect_to_word">>
    /\ selRead' = NotRead /\ clip' = NotRead /\ origin' = None /\ captured' = NoText
    /\ text' = NoText
    /\ inline_block' = FALSE /\ pandoc' = NoPandoc /\ frag' = << >> /\ docx_file' = None
    /\ splice' = NoSplice
    /\ UNCHANGED <<args, envVars>>

\* lines 205-211: get_selection_text(word) or get_clipboard_text() or (None, False).
\* The automation and clipboard calls are made outside any try block: an
\* error raised by one of them leaves on_triggered as an uncaught exception.
Acquire ==
    /\ pc = "acquire"
    /\ \E callOk \in BOOLEAN, pasted \in ClipTexts :
          LET sel == get_selection_text(docs[active])
              cb  == get_clipboard_text(pasted)
          IN  IF ~callOk
              THEN /\ exc' = "com_error"
                   /\ outcome' = "uncaught"
                   /\ pc' = "idle"
                   /\ calls' = Append(calls, "Selection.Text")
                   /\ UNCHANGED <<docs, selRead, clip, origin, captured, text, inline_block>>
              ELSE IF sel.some
              THEN /\ docs' = [docs EXCEPT ![active] = sel.doc]
                   /\ selRead' = SelText(docs[active])
                   /\ origin' = "selection" /\ captured' = sel.text /\ text' = sel.text
                   /\ inline_block' = sel.inline_block
                   /\ calls' = Append(calls, "Selection.Text")
                   /\ pc' = "filter"
                   /\ UNCHANGED <<clip, exc, outcome>>
              ELSE /\ selRead' = SelText(docs[active])
                   /\ clip' = pasted
                   /\ calls' = calls \o <<"Selection.Text", "paste">>
                   /\ captured' = cb.text /\ text' = cb.text
                   /\ inline_block' = cb.inline_block
                   /\ origin' = IF cb.some THEN "clipboard" ELSE None
                   /\ outcome' = IF cb.some THEN outcome ELSE "no_input"
                   /\ pc' = IF cb.some THEN "filter" ELSE "idle"
                   /\ UNCHANGED <<docs, exc>>
    /\ UNCHANGED <<args, active, envMoves, fs, triggers, guard, word, pandoc, frag,
                   docx_file, splice, modals>>

\* line 213: text = text_filter(text)
Filter ==
    /\ pc = "filter"
    /\ text' = text_filter(text, args.force_straight_quotes)
    /\ calls' = Append(calls, "text_filter")
    /\ pc' = "tempdir"
    /\ UNCHANGED <<args, envVars, triggers, guard, word, selRead, clip, origin, captured, inline_block,
                   pandoc, frag, docx_file, exc, splice, modals, outcome>>

\* line 220: with tempfile.TemporaryDirectory() as temp_dir
EnterTempDir ==
    /\ pc = "tempdir"
    /\ fs' = fs \cup {File("", << >>)}
    /\ calls' = Append(calls, "TemporaryDirectory")
    /\ pc' = "write"
    /\ UNCHANGED <<args, docs, active, envMoves, triggers, guard, word, selRead, clip, origin,
                   captured, text, inline_block, pandoc, frag, docx_file, exc, splice, modals,
                   outcome>>

\* convert_to_docx, lines 149-152: the staging file is written
WriteSource ==
    /\ pc = "write"
    /\ fs' = fs \cup {File(SourceName, text)}
    /\ calls' = Append(calls, "write")
    /\ pc' = "pandoc"
    /\ UNCHANGED <<args, docs, active, envMoves, triggers, guard, word, selRead, clip, origin,
                   captured, text, inline_block, pandoc, frag, docx_file, exc, splice, modals,
                   outcome>>

\* call_pandoc whose message is result.stderr alone
call_pandoc_stderr_only(found, returncode, stdout, stderr) ==
    IF ~found THEN "Pandoc not found in PATH"
    ELSE IF returncode # 0 THEN stderr
    ELSE None

\* call_pandoc, lines 132-143: the exception it raises, None when it returns
call_pandoc(found, returncode, stdout, stderr) ==
    IF ~found THEN "Pandoc not found in PATH"
    ELSE IF returncode # 0 THEN stdout \o stderr
    ELSE None

\* convert_to_docx, lines 154-156: call_pandoc(...); return docx_file
CallPandoc ==
    /\ pc = "pandoc"
    /\ \E found \in BOOLEAN, returncode \in {0, 1}, stdout \in Stdouts, stderr \in Stderrs,
          fragment \in Fragments :
          LET raised == call_pandoc(found, returncode, stdout, stderr)
          IN  /\ pandoc' = IF found
                           THEN [found |-> TRUE, ran |-> TRUE, returncode |-> returncode,
                                 stdout |-> IF returncode # 0 THEN stdout ELSE "",
                                 stderr |-> IF returncode # 0 THEN stderr ELSE ""]
                           ELSE [NoPandoc EXCEPT !.found = FALSE]
              /\ frag' = IF found /\ returncode = 0 THEN fragment ELSE << >>
              /\ fs' = IF found /\ returncode = 0 THEN fs \cup {File("temp.docx", fragment)} ELSE fs
              /\ exc' = raised
              /\ docx_file' = IF raised = None THEN TempDir \o "/temp.docx" ELSE None
              /\ pc' = IF raised = None THEN "insert" ELSE "leave"
              /\ calls' = IF found THEN calls \o <<"is_pandoc_in_path", "pandoc">>
                          ELSE Append(calls, "is_pandoc_in_path")
    /\ UNCHANGED <<args, docs, active, envMoves, triggers, guard, word, selRead, clip, origin,
                   captured, text, inline_block, splice, modals, outcome>>

\* insert_into_docx reading selection.Style() after selection.InsertFile
insert_into_docx_late_snapshot(d, fragment, inline) ==
    LET inserted == InsertFile(d, fragment)
        style    == IF inline THEN inserted.style ELSE None
        moved    == MoveLeft(inserted)
        repaired == [Delete(moved) EXCEPT !.style = style]
        first    == IF inline THEN <<"InsertFile", "Style()">> ELSE <<"InsertFile">>
    IN  IF ~inline
        THEN [doc |-> inserted, exc |-> None, calls |-> first]
        ELSE IF SelText(moved) # <<CR>>
        THEN [doc |-> moved, exc |-> "Expected '\\r', got '" \o Join(SelText(moved)) \o "'",
              calls |-> first \o <<"MoveLeft">>]
        ELSE [doc |-> repaired, exc |-> None,
              calls |-> first \o <<"MoveLeft", "Delete", "Style=">>]

\* insert_into_docx calling selection.Delete() before the assertion on the
\* character read
insert_into_docx_delete_first(d, fragment, inline) ==
    LET style    == IF inline THEN d.style ELSE None
        inserted == InsertFile(d, fragment)
        moved    == MoveLeft(inserted)
        repaired == [Delete(moved) EXCEPT !.style = style]
        first    == IF inline THEN <<"Style()", "InsertFile">> ELSE <<"InsertFile">>
    IN  IF ~inline
        THEN [doc |-> inserted, exc |-> None, calls |-> first]
        ELSE IF SelText(moved) # <<CR>>
        THEN [doc |-> Delete(moved),
              exc |-> "Expected '\\r', got '" \o Join(SelText(moved)) \o "'",
              calls |-> first \o <<"MoveLeft", "Delete">>]
        ELSE [doc |-> repaired, exc |-> None,
              calls |-> first \o <<"MoveLeft", "Delete", "Style=">>]

\* insert_into_docx running the trailing-break repair whatever inline_block is
insert_into_docx_always_repair(d, fragment, inline) ==
    LET style    == IF inline THEN d.style ELSE None
        inserted == InsertFile(d, fragment)
        moved    == MoveLeft(inserted)
        repaired == [Delete(moved) EXCEPT !.style = IF inline THEN style ELSE inserted.style]
        first    == IF inline THEN <<"Style()", "InsertFile">> ELSE <<"InsertFile">>
    IN  IF SelText(moved) # <<CR>>
        THEN [doc |-> moved, exc |-> "Expected '\\r', got '" \o Join(SelText(moved)) \o "'",
              calls |-> first \o <<"MoveLeft">>]
        ELSE [doc |-> repaired, exc |-> None,
              calls |-> first \o <<"MoveLeft", "Delete", "Style=">>]

\* insert_into_docx, lines 159-175, on the document d that holds the selection:
\* the document it leaves, the exception it raises and the calls it made
insert_into_docx(d, fragment, inline) ==
    LET style    == IF inline THEN d.style ELSE None
        inserted == InsertFile(d, fragment)
        moved    == MoveLeft(inserted)
        repaired == [Delete(moved) EXCEPT !.style = style]
        first    == IF inline THEN <<"Style()", "InsertFile">> ELSE <<"InsertFile">>
    IN  IF ~inline
        THEN [doc |-> inserted, exc |-> None, calls |-> first]
        ELSE IF SelText(moved) # <<CR>>
        THEN [doc |-> moved, exc |-> "Expected '\\r', got '" \o Join(SelText(moved)) \o "'",
              calls |-> first \o <<"MoveLeft">>]
        ELSE [doc |-> repaired, exc |-> None,
              calls |-> first \o <<"MoveLeft", "Delete", "Style=">>]

\* line 222: insert_into_docx(word, docx_file, inline_block); word.Selection is
\* the selection of the editor's active document at the time of the call
InsertIntoDocx ==
    /\ pc = "insert"
    /\ \E callOk \in BOOLEAN :
          LET fragment == ReadFile("temp.docx")
              r == insert_into_docx(docs[active], fragment, inline_block)
          IN  IF callOk
              THEN /\ docs' = [docs EXCEPT ![active] = r.doc]
                   /\ exc' = r.exc
                   /\ calls' = calls \o r.calls
                   /\ splice' = [doc |-> active, before |-> docs[active],
                                 fragment |-> fragment, inserted |-> TRUE]
              ELSE /\ exc' = "com_error"
                   /\ calls' = calls \o (IF inline_block THEN <<"Style()", "InsertFile">>
                                         ELSE <<"InsertFile">>)
                   /\ UNCHANGED <<docs, splice>>
    /\ pc' = "leave"
    /\ UNCHANGED <<args, active, envMoves, fs, triggers, guard, word, selRead, clip, origin,
                   captured, text, inline_block, pandoc, frag, docx_file, modals, outcome>>

\* lines 220-228: the with block is left, which removes the scratch directory;
\* then "Done." or the except clause's MessageBox
LeaveTempDir ==
    /\ pc = "leave"
    /\ fs' = Cleanup(fs)
    /\ calls' = Append(calls, "cleanup")
    /\ modals' = IF exc = None THEN modals ELSE Append(modals, exc)
    /\ outcome' = IF exc = None THEN "done" ELSE "error"
    /\ pc' = "idle"
    /\ UNCHANGED <<args, docs, active, envMoves, triggers, guard, word, selRead, clip, origin,
                   captured, text, inline_block, pandoc, frag, docx_file, exc, splice>>

\* ----------------------------------------------------------- environment
\* the user activates another document of the editor
SwitchDocument ==
    /\ envMoves < MaxEnvMoves
    /\ envMoves' = envMoves + 1
    /\ \E n \in DocNames \ {active} : active' = n
    /\ UNCHANGED <<args, docs, fs, pc, triggers, localVars>>

Next ==
    \/ Trigger
    \/ Acquire
    \/ Filter
    \/ EnterTempDir
    \/ WriteSource
    \/ CallPandoc
    \/ InsertIntoDocx
    \/ LeaveTempDir
    \/ SwitchDocument

Spec == Init /\ [][Next]_vars

\* ------------------------------------------- text_filter on every text
\* The handler stands before line 213 with an arbitrary captured text and
\* either value of --force-straight-quotes.
FilterInit ==
    /\ \E fsq \in BOOLEAN :
          args = [from_format |-> "typst", wps |-> FALSE, title |-> DefaultTitle(FALSE),
                  force_straight_quotes |-> fsq]
    /\ docs = [n \in DocNames |-> EmptyDocument]
    /\ active = "Report.docx"
    /\ envMoves = 0
    /\ fs = {}
    /\ pc = "filter"
    /\ triggers = 1
    /\ guard = [reachable |-> TRUE, doc |-> active, title |-> Format(args.title, active),
                ok |-> TRUE]
    /\ word = "Word.Application"
    /\ selRead = <<CR>>
    /\ clip \in SeqsUpTo(FilterChars, MaxTextLen)
    /\ origin = "clipboard"
    /\ captured = clip
    /\ text = clip
    /\ inline_block = NotFound(Strip(clip), LF)
    /\ pandoc = NoPandoc /\ frag = << >> /\ docx_file = None /\ exc = None
    /\ splice = NoSplice
    /\ calls = <<"connect_to_word", "Selection.Text", "paste">>
    /\ modals = << >>
    /\ outcome = "running"

FilterNext == Filter

FilterSpec == FilterInit /\ [][FilterNext]_vars

\* ================================================================ claims
Called(c) == \E i \in 1..Len(calls) : calls[i] = c
Last(t) == t[Len(t)]
Front(t) == SubSeq(t, 1, Len(t) - 1)
TriggerEnded == triggers > 0 /\ pc = "idle"

\* C1: within a trigger, InsertFile is called only if connect_to_word
\* succeeded in that same trigger (the editor had an active document and the
\* foreground title equalled the pattern with that document's name in place of
\* {doc}); a trigger whose guard failed has returned having made no other
\* call: no acquisition, no conversion, no insertion.
C1_InsertOnlyAfterGuard ==
    /\ Called("InsertFile") =>
          /\ word # None
          /\ guard.reachable
          /\ guard.title = Format(args.title, guard.doc)
    /\ (triggers > 0 /\ ~(guard.reachable /\ guard.title = Format(args.title, guard.doc))) =>
          /\ pc = "idle"
          /\ word = None
          /\ calls = <<"connect_to_word">>
          /\ selRead = NotRead /\ clip = NotRead /\ text = NoText
          /\ ~pandoc.ran /\ ~splice.inserted /\ fs = {}

\* the second trigger of a behaviour has inserted into the document
C1_Witness == triggers = 2 /\ splice.inserted /\ Called("InsertFile")

\* C2: the selection text is used whenever it is non-empty after trimming,
\* the clipboard is read only when the trimmed selection is empty, and the
\* result is "no input" exactly when both are empty after trimming; then the
\* handler has returned with no modal, no scratch directory, no converter
\* run and no insertion.
C2_OrderedFallback ==
    selRead # NotRead =>
        /\ (Strip(selRead) # << >>) <=> (origin = "selection")
        /\ origin = "selection" => captured = selRead /\ clip = NotRead
        /\ clip # NotRead <=> Strip(selRead) = << >>
        /\ origin = "clipboard" <=> (clip # NotRead /\ Strip(clip) # << >>)
        /\ origin = "clipboard" => captured = clip
        /\ outcome = "no_input" <=> (Strip(selRead) = << >> /\ Strip(clip) = << >>)
        /\ outcome = "no_input" =>
              /\ pc = "idle" /\ text = NoText
              /\ modals = << >>
              /\ fs = {} /\ ~Called("TemporaryDirectory")
              /\ ~pandoc.ran /\ ~Called("pandoc")
              /\ ~splice.inserted /\ ~Called("InsertFile")

\* a whitespace-only selection and a whitespace-only clipboard: no input
C2_Witness == outcome = "no_input" /\ selRead # << >> /\ clip = <<SP, LF>>

\* C3: after a splice that raised nothing, of a fragment ending in a
\* paragraph break: for a block span the document holds the whole fragment
\* where the selection was, and MoveLeft, Delete and the style assignment
\* were not called; for an inline span it holds the fragment less exactly
\* its one trailing paragraph break.
C3_SpliceRoundTrip ==
    (splice.inserted /\ exc = None /\ Last(splice.fragment) = CR) =>
        LET b    == splice.before
            d    == docs[splice.doc]
            put  == IF inline_block THEN Front(splice.fragment) ELSE splice.fragment
        IN  /\ d.text = SubSeq(b.text, 1, b.s) \o put
                        \o SubSeq(b.text, ReplacedEnd(b) + 1, Len(b.text))
            /\ ~inline_block =>
                  ~Called("MoveLeft") /\ ~Called("Delete") /\ ~Called("Style=")
                  /\ ~Called("Style()")

\* an inline splice has removed the trailing break of the fragment
C3_Witness ==
    /\ outcome = "done" /\ inline_block /\ splice.inserted
    /\ Last(splice.fragment) = CR /\ Called("Delete")

\* C4: once a trigger's conversion+insertion sequence has ended, nothing of
\* its scratch directory exists, whichever way it ended.
C4_ScratchRemoved ==
    (pc = "idle" \/ outcome \in {"done", "error"}) => ~\E f \in fs : f.dir = TempDir

\* the trigger ended in the failure of the inline trailing-break assertion
C4_Witness ==
    /\ outcome = "error" /\ splice.inserted /\ Called("TemporaryDirectory")
    /\ Called("MoveLeft") /\ ~Called("Delete")

\* C5: after a nonzero exit of the converter the exception is stdout followed
\* by stderr, no output path was returned and InsertFile is not called in the
\* trigger; an output path is held only after exit status zero.
C5_NonzeroExit ==
    /\ (pandoc.ran /\ pandoc.returncode # 0) =>
          /\ exc = pandoc.stdout \o pandoc.stderr
          /\ docx_file = None
          /\ ~Called("InsertFile") /\ ~splice.inserted
          /\ pc = "idle" => modals = <<pandoc.stdout \o pandoc.stderr>>
    /\ docx_file # None => (pandoc.ran /\ pandoc.returncode = 0)

\* the converter failed, printing on both streams
C5_Witness ==
    /\ pandoc.ran /\ pandoc.returncode # 0 /\ pandoc.stdout # "" /\ pandoc.stderr # ""
    /\ outcome = "error"

\* C6: when the converter executable is not on the search path, the
\* converter-unavailable error is raised before any file has been written:
\* with that exception in flight, no staging source file exists.
C6_FailFastBeforeWrite ==
    (pc = "leave" /\ exc = "Pandoc not found in PATH") => ~Exists(SourceName)

\* C7: connect_to_word returns the application handle if and only if the
\* editor is reachable with an active document and the foreground title is
\* equal, token for token, to the pattern with {doc} replaced by the active
\* document's name; for "{doc} - Word" and "Report.docx" the title
\* "Report.docx - Notepad" is rejected with an error shown and
\* "Report.docx - Word" is accepted.
C7_GuardExactTitle ==
    triggers > 0 =>
        /\ word # None <=> (guard.reachable /\ guard.title = Format(args.title, guard.doc))
        /\ word = None => (pc = "idle" /\ Len(modals) = 1 /\ exc = modals[1])
        /\ (Join(args.title) = "{doc} - Word" /\ guard.doc = "Report.docx") =>
              /\ Join(guard.title) = "Report.docx - Notepad" => (word = None /\ modals # << >>)
              /\ Join(guard.title) = "Report.docx - Word" => word # None

\* the guard has rejected a title that only begins with the expected one
C7_Witness ==
    /\ triggers > 0 /\ guard.reachable /\ word = None
    /\ IsPrefix(Format(args.title, guard.doc), guard.title)

\* C8 as stated: the inline flag is true when the captured text holds no
\* separator and false when it holds at least one (carriage return for the
\* selection, line feed for the clipboard).
C8_ClassifyWholeText ==
    /\ origin = "selection" => (inline_block <=> NotFound(captured, CR))
    /\ origin = "clipboard" => (inline_block <=> NotFound(captured, LF))

\* C8 amended: the inline flag is true when the captured text, trimmed of
\* leading and trailing whitespace, holds no separator and false when the
\* trimmed text holds at least one (carriage return for the selection, line
\* feed for the clipboard).
C8_ClassifyTrimmedText ==
    /\ origin = "selection" => (inline_block <=> NotFound(Strip(captured), CR))
    /\ origin = "clipboard" => (inline_block <=> NotFound(Strip(captured), LF))

\* a selection that holds a paragraph mark only at its end is inline
C8_Witness == origin = "selection" /\ inline_block /\ ~NotFound(captured, CR)

\* C9: a trigger that ended in the failure of a stage has shown a modal;
\* only the "no input" outcome ends a trigger without one.
C9_EveryFailureShown ==
    TriggerEnded =>
        /\ outcome \notin {"done", "no_input"} => modals # << >>
        /\ outcome = "no_input" => modals = << >>

\* C10: text_filter applied to its own result returns that result, for
\* either value of force_straight_quotes.
C10_FilterIdempotent ==
    Called("text_filter") =>
        text_filter(text, args.force_straight_quotes) = text

\* text_filter has folded a CR LF pair and a curly quote
C10_Witness ==
    /\ Called("text_filter") /\ args.force_straight_quotes
    /\ Len(text) < Len(captured) /\ ~NotFound(captured, LDQ)

\* C11: with force_straight_quotes off, text_filter leaves every curly quote
\* as it is, in place among the characters that are not line endings; the
\* curly quotes are replaced by the straight ones only with the flag on.
CurlyQuotes == {LDQ, RDQ, LSQ, RSQ}
IsLineEnding(c) == c \in {CR, LF, VT}

RECURSIVE WithoutLineEndings(_)
WithoutLineEndings(t) ==
    IF t = << >> THEN << >>
    ELSE IF IsLineEnding(Head(t)) THEN WithoutLineEndings(Tail(t))
    ELSE <<Head(t)>> \o WithoutLineEndings(Tail(t))

Straightened(t) ==
    [i \in 1..Len(t) |-> CASE t[i] \in {LDQ, RDQ} -> DQ
                           [] t[i] \in {LSQ, RSQ} -> SQ
                           [] OTHER -> t[i]]

C11_QuotesOnlyUnderFlag ==
    Called("text_filter") =>
        /\ ~args.force_straight_quotes =>
              WithoutLineEndings(text) = WithoutLineEndings(captured)
        /\ args.force_straight_quotes =>
              /\ \A i \in 1..Len(text) : text[i] \notin CurlyQuotes
              /\ WithoutLineEndings(text) = Straightened(WithoutLineEndings(captured))

\* with the flag off, a text with a curly quote and a line ending was filtered
C11_Witness ==
    /\ Called("text_filter") /\ ~args.force_straight_quotes
    /\ \E i \in 1..Len(text) : text[i] \in CurlyQuotes
    /\ text # captured

\* get_selection_text has shrunk the selection (lines 97-99): the selection
\* was inline and its last character was the mark closing its last paragraph
SelectionShrunk == origin = "selection" /\ inline_block /\ Last(selRead) = CR

\* C12: when the inline selection ended at the end of its last paragraph,
\* the text normalized and written to the staging file is the text of the
\* selection shrunk by one character: it does not carry the trailing
\* paragraph mark, nor a line feed derived from it.
C12_ShrunkTextConverted ==
    (SelectionShrunk /\ Exists(SourceName)) =>
        ReadFile(SourceName) = text_filter(Front(selRead), args.force_straight_quotes)

\* insert_into_docx raised after its InsertFile call had returned: the
\* assertion of line 173 failed
AssertionFailed == splice.inserted /\ exc # None

\* C13: when the character selected after InsertFile and MoveLeft of an inline
\* splice is not the paragraph mark, insert_into_docx has failed without
\* Delete and without the style assignment: the document holds the whole
\* fragment where the selection was, with the fragment's style; no further
\* step of the trigger touches the document, and the failure is shown in a
\* modal.
C13_FailedRepairLeavesFragment ==
    AssertionFailed =>
        LET b == splice.before
            d == docs[splice.doc]
        IN  /\ inline_block
            /\ Called("MoveLeft") /\ ~Called("Delete") /\ ~Called("Style=")
            /\ d.text = SubSeq(b.text, 1, b.s) \o splice.fragment
                        \o SubSeq(b.text, ReplacedEnd(b) + 1, Len(b.text))
            /\ d.style = FragStyle
            /\ pc \in {"leave", "idle"}
            /\ pc = "idle" => (outcome = "error" /\ modals = <<exc>>)

\* the assertion failed on a fragment without a trailing paragraph mark and
\* the modal was shown
C13_Witness ==
    /\ AssertionFailed /\ pc = "idle" /\ Last(splice.fragment) # CR
    /\ Len(modals) = 1

\* the place of a call in the trigger's call log
CallIndex(c) == CHOOSE i \in 1..Len(calls) : calls[i] = c

\* C14: in an inline splice that raised nothing the style is read before
\* InsertFile and assigned after Delete, and the style at the insertion point
\* is the one that was there before the insertion; a block splice neither
\* reads nor assigns the style.
C14_StyleRestored ==
    (splice.inserted /\ exc = None) =>
        /\ inline_block =>
              /\ Called("Style()") /\ Called("InsertFile")
              /\ Called("Delete") /\ Called("Style=")
              /\ CallIndex("Style()") < CallIndex("InsertFile")
              /\ CallIndex("InsertFile") < CallIndex("Delete")
              /\ CallIndex("Delete") < CallIndex("Style=")
              /\ docs[splice.doc].style = splice.before.style
        /\ ~inline_block =>
              /\ ~Called("Style()") /\ ~Called("Style=")
              /\ docs[splice.doc].style = FragStyle

\* an inline splice has put back a style that is not the fragment's
C14_Witness ==
    /\ splice.inserted /\ exc = None /\ inline_block /\ pc = "idle"
    /\ splice.before.style = "Heading 1"
    /\ docs[splice.doc].style = "Heading 1"

\* C15: within one trigger the document that receives the insertion is the
\* document whose name the guard compared the title with, whatever the user
\* activates in the editor between the guard and the splice.
C15_InsertIntoGuardedDocument ==
    splice.inserted => splice.doc = guard.doc

====
